---- MODULE Spec2Model ----
(***************************************************************************)
(* TodoMaster: the Task record (tasks.py) and the SQLite Storage layer     *)
(* (storage.py).                                                           *)
(*                                                                         *)
(* Text (Python str, SQLite TEXT) is a sequence of character codes, so     *)
(* that joining, splitting, LIKE matching and the byte-wise comparison of  *)
(* SQLite's BINARY collation are computed on characters.  An optional      *)
(* value (Python None, SQL NULL) is the empty sequence None, a present     *)
(* value x is the one-element sequence Some(x).  A datetime is the pair    *)
(* <<day, time of day>>; the clock counts ticks, DayLen ticks to a day.    *)
(***************************************************************************)
EXTENDS Integers, Sequences, FiniteSets, TLC

VARIABLES
    op,        \* name of the last operation performed
    arg,       \* the argument of the last call (id, tag, value, thread), else 0
    ret,       \* the value the last storage operation returned
    rows,      \* the tasks table: a set of rows
    seq,       \* sqlite_sequence.seq of the tasks table (AUTOINCREMENT)
    assigned,  \* history: the ids create_task has handed out, oldest first
    task,      \* the caller's in-memory Task object, None when it holds none
    now,       \* the wall clock, in ticks of UTC
    tz,        \* the local time zone: local time = UTC + tz ticks
    pc,        \* for each thread, where it is in its call of the store
    lock       \* whether self._lock is held

vars == <<op, arg, ret, rows, seq, assigned, task, now, tz, pc, lock>>

---------------------------------------------------------------------------
(* Bounds of the model *)

MaxId == 2      \* create_task is called at most MaxId times
MaxThreads == 2 \* the threads that share the Storage object
MaxNow == 1     \* the clock stops after MaxNow ticks
DayLen == 2     \* ticks per calendar day

---------------------------------------------------------------------------
(* Characters *)

Comma == 44
ChT == 84
ChSpace == 32
Ch0 == 48
Percent == 37
Underscore == 95
ChA == 97
ChB == 98
ChUpperA == 65
Minus == 45
ChH == 104
ChL == 108
ChI == 105

None == <<>>
Some(x) == <<x>>

Max2(a, b) == IF a >= b THEN a ELSE b

---------------------------------------------------------------------------
(* Python str / datetime conversions used by the row mapping *)

\* ",".join(tags)
RECURSIVE Join(_)
Join(tags) ==
    IF Len(tags) = 0 THEN <<>>
    ELSE IF Len(tags) = 1 THEN tags[1]
    ELSE tags[1] \o <<Comma>> \o Join(Tail(tags))

\* text.split(","), cur being the piece read so far
RECURSIVE SplitFrom(_, _)
SplitFrom(text, cur) ==
    IF Len(text) = 0 THEN <<cur>>
    ELSE IF Head(text) = Comma THEN <<cur>> \o SplitFrom(Tail(text), <<>>)
    ELSE SplitFrom(Tail(text), Append(cur, Head(text)))

Split(text) == SplitFrom(text, <<>>)

\* datetime.isoformat(): fixed-width date, 'T', fixed-width time
isoformat(dt) == <<Ch0 + dt[1], ChT, Ch0 + dt[2]>>

\* datetime.fromisoformat(): the date before and the time after the separator
fromisoformat(text) == <<text[1] - Ch0, text[3] - Ch0>>

\* the datetime of clock reading n
DateTimeOf(n) == <<n \div DayLen, n % DayLen>>

\* datetime.now(): naive local time
LocalNow(n, zone) == DateTimeOf(n + zone)

\* byte-wise comparison of two TEXT values (SQLite BINARY collation)
RECURSIVE TextLess(_, _)
TextLess(a, b) ==
    IF Len(b) = 0 THEN FALSE
    ELSE IF Len(a) = 0 THEN TRUE
    ELSE IF Head(a) # Head(b) THEN Head(a) < Head(b)
    ELSE TextLess(Tail(a), Tail(b))

---------------------------------------------------------------------------
(* Task (tasks.py) *)

Priority == {"low", "medium", "high"}

\* the dataclass constructor followed by __post_init__, reading the clock
\* at n1 for created_at and at n2 for updated_at when created_at is None
Task(description, priority, due_date, completed, tags, id, created_at, updated_at, completed_at, n1, n2, zone) ==
    [description |-> description,
     priority |-> priority,
     due_date |-> due_date,
     completed |-> completed,
     tags |-> tags,
     id |-> id,
     created_at |-> IF created_at = None THEN Some(LocalNow(n1, zone))
                    ELSE created_at,
     updated_at |-> IF created_at = None THEN Some(LocalNow(n2, zone))
                    ELSE updated_at,
     completed_at |-> completed_at]

\* mark_completed that sets the flag and stamps nothing
mark_completed_flag_only(t, n1, n2, zone) == [t EXCEPT !.completed = TRUE]

\* mark_completed that stamps updated_at and not completed_at
mark_completed_no_completed_at(t, n1, n2, zone) ==
    [t EXCEPT !.completed = TRUE,
              !.updated_at = Some(LocalNow(n2, zone))]

\* Task.mark_completed, the clock read at n1 and then at n2
mark_completed(t, n1, n2, zone) ==
    [t EXCEPT !.completed = TRUE,
              !.completed_at = Some(LocalNow(n1, zone)),
              !.updated_at = Some(LocalNow(n2, zone))]

\* Task.update_description
update_description(t, description, n, zone) ==
    [t EXCEPT !.description = description,
              !.updated_at = Some(LocalNow(n, zone))]

\* update_priority that leaves updated_at alone
update_priority_no_stamp(t, priority, n, zone) ==
    [t EXCEPT !.priority = priority]

\* Task.update_priority
update_priority(t, priority, n, zone) ==
    [t EXCEPT !.priority = priority,
              !.updated_at = Some(LocalNow(n, zone))]

\* Task.update_due_date
update_due_date(t, due_date, n, zone) ==
    [t EXCEPT !.due_date = due_date,
              !.updated_at = Some(LocalNow(n, zone))]

\* tag in self.tags
HasTag(t, tag) == \E i \in DOMAIN t.tags : t.tags[i] = tag

\* add_tag without the membership test
add_tag_always(t, tag, n, zone) ==
    [t EXCEPT !.tags = Append(t.tags, tag),
              !.updated_at = Some(LocalNow(n, zone))]

\* Task.add_tag
add_tag(t, tag, n, zone) ==
    IF ~HasTag(t, tag)
    THEN [t EXCEPT !.tags = Append(t.tags, tag),
                   !.updated_at = Some(LocalNow(n, zone))]
    ELSE t

\* list.remove(tag): the list without the first occurrence of tag
RECURSIVE ListRemove(_, _)
ListRemove(list, x) ==
    IF Len(list) = 0 THEN <<>>
    ELSE IF Head(list) = x THEN Tail(list)
    ELSE <<Head(list)>> \o ListRemove(Tail(list), x)

\* remove_tag that refreshes updated_at whether or not the tag was there
remove_tag_restamp(t, tag, n, zone) ==
    [t EXCEPT !.tags = ListRemove(t.tags, tag),
              !.updated_at = Some(LocalNow(n, zone))]

\* Task.remove_tag
remove_tag(t, tag, n, zone) ==
    IF HasTag(t, tag)
    THEN [t EXCEPT !.tags = ListRemove(t.tags, tag),
                   !.updated_at = Some(LocalNow(n, zone))]
    ELSE t

\* is_overdue without the test of completed
is_overdue_any_state(t, n, zone) ==
    IF t.due_date = None THEN FALSE
    ELSE LET d == t.due_date[1]
             m == LocalNow(n, zone)
         IN m[1] > d[1] \/ (m[1] = d[1] /\ m[2] > d[2])

\* Task.is_overdue, the clock reading n: datetime.now() > self.due_date
is_overdue(t, n, zone) ==
    IF t.due_date = None \/ t.completed THEN FALSE
    ELSE LET d == t.due_date[1]
             m == LocalNow(n, zone)
         IN m[1] > d[1] \/ (m[1] = d[1] /\ m[2] > d[2])

\* Task.is_due_today, the clock reading n
is_due_today(t, n, zone) ==
    IF t.due_date = None THEN FALSE
    ELSE t.due_date[1][1] = LocalNow(n, zone)[1]

---------------------------------------------------------------------------
(* Row mapping (storage.py) *)

\* the exception fromisoformat(None) raises for a NULL created_at/updated_at
TypeErrorRaised == [raised |-> "TypeError"]

\* Storage._task_to_row: the eight bound parameters of the INSERT
_task_to_row(t) ==
    [description |-> t.description,
     priority |-> t.priority,
     due_date |-> IF t.due_date # None THEN Some(isoformat(t.due_date[1]))
                  ELSE None,
     completed |-> IF t.completed THEN 1 ELSE 0,
     tags |-> IF Len(t.tags) > 0 THEN Some(Join(t.tags)) ELSE None,
     created_at |-> IF t.created_at # None
                    THEN Some(isoformat(t.created_at[1])) ELSE None,
     updated_at |-> IF t.updated_at # None
                    THEN Some(isoformat(t.updated_at[1])) ELSE None,
     completed_at |-> IF t.completed_at # None
                      THEN Some(isoformat(t.completed_at[1])) ELSE None]

\* Storage._task_from_row
_task_from_row(row) ==
    IF row.created_at = None \/ row.updated_at = None THEN TypeErrorRaised
    ELSE
    [description |-> row.description,
     priority |-> row.priority,
     due_date |-> IF row.due_date # None /\ Len(row.due_date[1]) > 0
                  THEN Some(fromisoformat(row.due_date[1])) ELSE None,
     completed |-> row.completed # 0,
     tags |-> IF row.tags # None /\ Len(row.tags[1]) > 0
              THEN Split(row.tags[1]) ELSE <<>>,
     id |-> Some(row.id),
     created_at |-> Some(fromisoformat(row.created_at[1])),
     updated_at |-> Some(fromisoformat(row.updated_at[1])),
     completed_at |-> IF row.completed_at # None /\ Len(row.completed_at[1]) > 0
                      THEN Some(fromisoformat(row.completed_at[1])) ELSE None]

---------------------------------------------------------------------------
(* The tasks table *)

Ids(table) == {r.id : r \in table}

MaxRowid(table) ==
    IF table = {} THEN 0
    ELSE CHOOSE m \in Ids(table) : \A i \in Ids(table) : i <= m

\* the rowid of a plain INTEGER PRIMARY KEY, which forgets deleted rows
NextRowidNoAutoincrement(table, s) == MaxRowid(table) + 1

\* the rowid an INSERT gets from INTEGER PRIMARY KEY AUTOINCREMENT
NextRowid(table, s) == Max2(s, MaxRowid(table)) + 1

\* INSERT INTO tasks (...) VALUES (...)
InsertRow(table, s, t) ==
    table \cup {[id |-> NextRowid(table, s)] @@ _task_to_row(t)}

\* the UPDATE without its WHERE clause
UpdateRowsNoWhere(table, t) ==
    LET v == _task_to_row(t) IN
    {[r EXCEPT !.description = v.description,
               !.priority = v.priority,
               !.due_date = v.due_date,
               !.completed = v.completed,
               !.tags = v.tags,
               !.updated_at = v.updated_at,
               !.completed_at = v.completed_at] : r \in table}

\* an UPDATE that inserts the row when no row has the id
UpdateRowsUpsert(table, t) ==
    IF t.id = None THEN table
    ELSE IF t.id[1] \notin Ids(table)
    THEN table \cup {[id |-> t.id[1]] @@ _task_to_row(t)}
    ELSE UpdateRowsNoWhere({r \in table : r.id = t.id[1]}, t)
             \cup {r \in table : r.id # t.id[1]}

\* UPDATE tasks SET ... WHERE id = ?
UpdateRows(table, t) ==
    LET v == _task_to_row(t) IN
    {IF t.id # None /\ r.id = t.id[1]
     THEN [r EXCEPT !.description = v.description,
                    !.priority = v.priority,
                    !.due_date = v.due_date,
                    !.completed = v.completed,
                    !.tags = v.tags,
                    !.updated_at = v.updated_at,
                    !.completed_at = v.completed_at]
     ELSE r : r \in table}

\* DELETE FROM tasks WHERE id <= ?
DeletedUpToId(table, id) == {r \in table : r.id <= id}

\* DELETE FROM tasks WHERE id = ?
DeletedById(table, id) == {r \in table : r.id = id}

\* DELETE FROM tasks WHERE completed = FALSE
DeletedPending(table) == {r \in table : r.completed = 0}

\* DELETE FROM tasks WHERE completed = TRUE
DeletedCompleted(table) == {r \in table : r.completed = 1}

\* the SELECT without its WHERE clause: fetchone() gives the oldest row
get_task_first(table, id) ==
    IF table # {}
    THEN Some(_task_from_row(CHOOSE r \in table : \A q \in table : r.id <= q.id))
    ELSE None

\* Storage.get_task: None, the Task, or the exception of the row mapping
get_task(table, id) ==
    IF id \in Ids(table)
    THEN Some(_task_from_row(CHOOSE r \in table : r.id = id))
    ELSE None

\* _init_db that creates the table anew
_init_db_recreate(exists, table, s) == [rows |-> {}, seq |-> 0]

\* Storage._init_db: CREATE TABLE IF NOT EXISTS tasks (...) makes an empty
\* table with a fresh sequence when the file has none and is no statement
\* at all when it has one
_init_db(exists, table, s) ==
    IF exists THEN [rows |-> table, seq |-> s]
    ELSE [rows |-> {}, seq |-> 0]

---------------------------------------------------------------------------
(* Queries (storage.py) *)

\* comparison of two column values, NULL sorting before every TEXT
KeyLess(a, b) ==
    IF a = None THEN b # None
    ELSE IF b = None THEN FALSE
    ELSE TextLess(a[1], b[1])

\* ORDER BY id instead of the key
RECURSIVE OrderByRowid(_, _, _)
OrderByRowid(S, key, desc) ==
    IF S = {} THEN <<>>
    ELSE LET first == CHOOSE r \in S : \A q \in S \ {r} :
                          IF desc THEN q.id < r.id ELSE r.id < q.id
         IN <<first>> \o OrderByRowid(S \ {first}, key, desc)

\* ORDER BY key ASC or DESC: the rows of S as a list; rows with equal keys
\* come in rowid order
RECURSIVE OrderBy(_, _, _)
OrderBy(S, key, desc) ==
    IF S = {} THEN <<>>
    ELSE LET first == CHOOSE r \in S : \A q \in S \ {r} :
                          IF key[r] = key[q] THEN r.id < q.id
                          ELSE IF desc THEN KeyLess(key[q], key[r])
                          ELSE KeyLess(key[r], key[q])
         IN <<first>> \o OrderBy(S \ {first}, key, desc)

\* [self._task_from_row(row) for row in rows]
TasksFromRows(list) ==
    IF \E i \in DOMAIN list : _task_from_row(list[i]) = TypeErrorRaised
    THEN TypeErrorRaised
    ELSE [i \in DOMAIN list |-> _task_from_row(list[i])]

\* the pending query without its WHERE clause
PendingRowsNoWhere(table) == table

\* WHERE completed = FALSE
PendingRows(table) == {r \in table : r.completed = 0}

\* WHERE completed = TRUE
CompletedRows(table) == {r \in table : r.completed = 1}

\* Storage.get_all_tasks
get_all_tasks(table) ==
    TasksFromRows(OrderBy(table, [r \in table |-> r.created_at], TRUE))

\* Storage.get_pending_tasks
get_pending_tasks(table) ==
    TasksFromRows(OrderBy(PendingRows(table),
                          [r \in table |-> r.created_at], TRUE))

\* Storage.get_completed_tasks
get_completed_tasks(table) ==
    TasksFromRows(OrderBy(CompletedRows(table),
                          [r \in table |-> r.completed_at], TRUE))

\* the overdue query without completed = FALSE
OverdueRowsAnyState(table, n, zone) ==
    {r \in table : /\ r.due_date # None
                   /\ TextLess(r.due_date[1], isoformat(LocalNow(n, zone)))}

\* WHERE completed = FALSE AND due_date IS NOT NULL AND due_date < ?,
\* the parameter being datetime.now().isoformat()
OverdueRows(table, n, zone) ==
    {r \in table : /\ r.completed = 0
                   /\ r.due_date # None
                   /\ TextLess(r.due_date[1], isoformat(LocalNow(n, zone)))}

\* Storage.get_overdue_tasks
get_overdue_tasks(table, n, zone) ==
    TasksFromRows(OrderBy(OverdueRows(table, n, zone),
                          [r \in table |-> r.due_date], FALSE))

\* SQLite's datetime('now'): the UTC time as 'YYYY-MM-DD HH:MM:SS'
SqlDatetimeNow(n) == <<Ch0 + DateTimeOf(n)[1], ChSpace, Ch0 + DateTimeOf(n)[2]>>

\* the fourth COUNT(*) of get_task_stats:
\* WHERE completed = FALSE AND due_date IS NOT NULL
\*   AND due_date < datetime('now')
StatsOverdueRows(table, n) ==
    {r \in table : /\ r.completed = 0
                   /\ r.due_date # None
                   /\ TextLess(r.due_date[1], SqlDatetimeNow(n))}

\* the pending count without its WHERE clause
CountPendingNoWhere(table) == Cardinality(table)

\* SELECT COUNT(*) FROM tasks WHERE completed = FALSE
CountPending(table) == Cardinality({r \in table : r.completed = 0})

\* SELECT COUNT(*) FROM tasks WHERE completed = TRUE
CountCompleted(table) == Cardinality({r \in table : r.completed = 1})

\* Storage.get_task_stats
get_task_stats(table, n) ==
    [total |-> Cardinality(table),
     pending |-> CountPending(table),
     completed |-> CountCompleted(table),
     overdue |-> Cardinality(StatsOverdueRows(table, n))]

\* ASCII case folding of SQLite's LIKE
Fold(c) == IF c >= 65 /\ c <= 90 THEN c + 32 ELSE c

\* text LIKE pat: % matches any run of characters, _ any one character,
\* any other character itself without regard to ASCII case
RECURSIVE Like(_, _)
Like(pat, text) ==
    IF Len(pat) = 0 THEN Len(text) = 0
    ELSE IF Head(pat) = Percent
    THEN Like(Tail(pat), text) \/ (Len(text) > 0 /\ Like(pat, Tail(text)))
    ELSE /\ Len(text) > 0
         /\ (Head(pat) = Underscore \/ Fold(Head(pat)) = Fold(Head(text)))
         /\ Like(Tail(pat), Tail(text))

\* WHERE description LIKE ? OR tags LIKE ?, both parameters f"%{query}%"
SearchRows(table, query) ==
    LET pat == <<Percent>> \o query \o <<Percent>> IN
    {r \in table : \/ Like(pat, r.description)
                   \/ (r.tags # None /\ Like(pat, r.tags[1]))}

\* Storage.search_tasks
search_tasks(table, query) ==
    TasksFromRows(OrderBy(SearchRows(table, query),
                          [r \in table |-> r.created_at], TRUE))

\* date.isoformat(): the day alone, the prefix of the datetime's text
DateIsoformat(day) == <<Ch0 + day>>

\* WHERE completed = FALSE AND due_date >= ? AND due_date < ?, the
\* parameters being the texts of today's and tomorrow's dates; a NULL
\* due_date satisfies neither comparison
DueTodayRows(table, today, tomorrow) ==
    {r \in table : /\ r.completed = 0
                   /\ r.due_date # None
                   /\ ~TextLess(r.due_date[1], today)
                   /\ TextLess(r.due_date[1], tomorrow)}

\* get_tasks_due_today(): today is taken from one reading of the clock, n1,
\* and tomorrow from a second reading, n2
get_tasks_due_today(table, n1, n2, zone) ==
    LET today == DateIsoformat(LocalNow(n1, zone)[1])
        tomorrow == DateIsoformat(LocalNow(n2, zone)[1] + 1)
        S == DueTodayRows(table, today, tomorrow)
    IN TasksFromRows(OrderBy(S, [r \in S |-> r.due_date], FALSE))

---------------------------------------------------------------------------
(* Parsing of the command line's texts (utils.py) *)

IsDigit(c) == c \in Ch0 .. (Ch0 + 9)

\* the number a text of decimal digits stands for
RECURSIVE DigitsValue(_)
DigitsValue(text) ==
    IF Len(text) = 0 THEN 0
    ELSE 10 * DigitsValue(SubSeq(text, 1, Len(text) - 1))
             + (text[Len(text)] - Ch0)

\* validate_task_id: int(task_id_str) when it is above 0, None when it is
\* not or when int() raises ValueError; the texts are decimal digits with an
\* optional minus sign, or not a number at all
validate_task_id(text) ==
    LET negative == Len(text) > 0 /\ text[1] = Minus
        digits == IF negative THEN Tail(text) ELSE text
    IN IF Len(digits) = 0 \/ \E i \in DOMAIN digits : ~IsDigit(digits[i])
       THEN None
       ELSE IF ~negative /\ DigitsValue(digits) > 0
       THEN Some(DigitsValue(digits))
       ELSE None

\* a text that datetime.fromisoformat reads
IsIsoDateTime(text) ==
    /\ Len(text) = 3
    /\ IsDigit(text[1])
    /\ text[2] = ChT
    /\ text[3] \in Ch0 .. (Ch0 + DayLen - 1)

\* parse_date for texts other than the relative forms ("today", "+3d"):
\* None for the empty text, the datetime of an ISO text, midnight of a date
\* alone ("%Y-%m-%d"), None when every parser has failed
parse_date(text) ==
    IF Len(text) = 0 THEN None
    ELSE IF IsIsoDateTime(text) THEN Some(fromisoformat(text))
    ELSE IF Len(text) = 1 /\ IsDigit(text[1]) THEN Some(<<text[1] - Ch0, 0>>)
    ELSE None

\* parse_priority: the priority_map entry of the text, MEDIUM by default
parse_priority(text) ==
    IF text = <<ChH>> THEN "high"
    ELSE IF text = <<ChL>> THEN "low"
    ELSE "medium"

\* the list without empty pieces and without repetitions
RECURSIVE Distinct(_)
Distinct(list) ==
    IF Len(list) = 0 THEN <<>>
    ELSE LET rest == Distinct(SubSeq(list, 1, Len(list) - 1))
             x == list[Len(list)]
         IN IF Len(x) = 0 \/ (\E i \in DOMAIN rest : rest[i] = x) THEN rest
            ELSE Append(rest, x)

\* parse_tags for texts separated by commas: the pieces that are not empty,
\* each once
parse_tags(text) == IF Len(text) = 0 THEN <<>> ELSE Distinct(Split(text))

\* for new_tag in new_tags: task.add_tag(new_tag)
RECURSIVE AddTags(_, _, _, _)
AddTags(t, tags, n, zone) ==
    IF Len(tags) = 0 THEN t
    ELSE AddTags(add_tag(t, Head(tags), n, zone), Tail(tags), n, zone)

---------------------------------------------------------------------------
(* Operations *)

\* the threads that may call the store
Threads == 1 .. MaxThreads

\* a thread that is in no call of the store
Idle == [at |-> "idle"]

\* Storage.__init__ on an empty database: self._lock = threading.Lock() is
\* created unlocked
Init ==
    /\ op = "init"
    /\ arg = 0
    /\ ret = None
    /\ rows = {}
    /\ seq = 0
    /\ assigned = <<>>
    /\ task = None
    /\ now = 0
    /\ tz \in {0, 1}
    /\ pc = [t \in Threads |-> Idle]
    /\ lock = FALSE

\* time passes
Tick(limit) ==
    /\ now < limit
    /\ now' = now + 1
    /\ op' = "tick"
    /\ arg' = 0
    /\ ret' = None
    /\ UNCHANGED <<rows, seq, assigned, task, tz, pc, lock>>

\* the caller constructs Task(description, priority, due_date, tags=tags);
\* __post_init__ reads the clock at now and again at n2
NewTask(description, priority, due_date, tags, n2) ==
    /\ task' = Some(Task(description, priority, due_date, FALSE, tags,
                         None, None, None, None, now, n2, tz))
    /\ now' = n2
    /\ op' = "Task"
    /\ arg' = 0
    /\ ret' = None
    /\ UNCHANGED <<rows, seq, assigned, tz, pc, lock>>

\* mark_completed() that also writes the task to its row
MarkCompletedAutosave(n2) ==
    /\ task # None
    /\ task' = Some(mark_completed(task[1], now, n2, tz))
    /\ rows' = UpdateRows(rows, task'[1])
    /\ now' = n2
    /\ op' = "mark_completed"
    /\ arg' = 0
    /\ ret' = None
    /\ UNCHANGED <<seq, assigned, tz, pc, lock>>

\* the caller constructs Task(description, created_at=created_at,
\* updated_at=created_at): a task that was made at another time than it is
\* persisted
NewTaskAt(description, created_at) ==
    /\ task' = Some(Task(description, "medium", None, FALSE, <<>>, None,
                         Some(created_at), Some(created_at), None,
                         now, now, tz))
    /\ op' = "Task"
    /\ arg' = 0
    /\ ret' = None
    /\ UNCHANGED <<rows, seq, assigned, now, tz, pc, lock>>

\* the caller constructs Task(description, completed=completed)
NewTaskCompleted(description, completed) ==
    /\ task' = Some(Task(description, "medium", None, completed, <<>>, None,
                         None, None, None, now, now, tz))
    /\ op' = "Task"
    /\ arg' = completed
    /\ ret' = None
    /\ UNCHANGED <<rows, seq, assigned, now, tz, pc, lock>>

\* the caller calls task.mark_completed(), which reads the clock at now and
\* again at n2
MarkCompleted(n2) ==
    /\ task # None
    /\ task' = Some(mark_completed(task[1], now, n2, tz))
    /\ now' = n2
    /\ op' = "mark_completed"
    /\ arg' = 0
    /\ ret' = None
    /\ UNCHANGED <<rows, seq, assigned, tz, pc, lock>>

\* the caller calls task.update_description(description)
UpdateDescription(description) ==
    /\ task # None
    /\ task' = Some(update_description(task[1], description, now, tz))
    /\ op' = "update_description"
    /\ arg' = description
    /\ ret' = None
    /\ UNCHANGED <<rows, seq, assigned, now, tz, pc, lock>>

\* the caller calls task.add_tag(tag)
AddTag(tag) ==
    /\ task # None
    /\ task' = Some(add_tag(task[1], tag, now, tz))
    /\ op' = "add_tag"
    /\ arg' = tag
    /\ ret' = None
    /\ UNCHANGED <<rows, seq, assigned, now, tz, pc, lock>>

\* the caller calls task.update_priority(priority)
UpdatePriority(priority) ==
    /\ task # None
    /\ task' = Some(update_priority(task[1], priority, now, tz))
    /\ op' = "update_priority"
    /\ arg' = priority
    /\ ret' = None
    /\ UNCHANGED <<rows, seq, assigned, now, tz, pc, lock>>

\* the caller calls task.update_due_date(due_date)
UpdateDueDate(due_date) ==
    /\ task # None
    /\ task' = Some(update_due_date(task[1], due_date, now, tz))
    /\ op' = "update_due_date"
    /\ arg' = due_date
    /\ ret' = None
    /\ UNCHANGED <<rows, seq, assigned, now, tz, pc, lock>>

\* the caller calls task.remove_tag(tag)
RemoveTag(tag) ==
    /\ task # None
    /\ task' = Some(remove_tag(task[1], tag, now, tz))
    /\ op' = "remove_tag"
    /\ arg' = tag
    /\ ret' = None
    /\ UNCHANGED <<rows, seq, assigned, now, tz, pc, lock>>

\* Storage.create_task(task), at most limit times
create_task(limit) ==
    /\ task # None
    /\ seq < limit
    /\ rows' = InsertRow(rows, seq, task[1])
    /\ seq' = NextRowid(rows, seq)
    /\ assigned' = Append(assigned, NextRowid(rows, seq))
    /\ task' = Some([task[1] EXCEPT !.id = Some(NextRowid(rows, seq))])
    /\ op' = "create_task"
    /\ arg' = 0
    /\ ret' = task'
    /\ UNCHANGED <<now, tz, pc, lock>>

\* Storage.update_task(task)
update_task ==
    /\ task # None
    /\ rows' = UpdateRows(rows, task[1])
    /\ op' = "update_task"
    /\ arg' = 0
    /\ ret' = task
    /\ UNCHANGED <<seq, assigned, task, now, tz, pc, lock>>

\* Storage.delete_task(task_id)
delete_task(id) ==
    /\ rows' = rows \ DeletedById(rows, id)
    /\ op' = "delete_task"
    /\ arg' = id
    /\ ret' = (Cardinality(DeletedById(rows, id)) > 0)
    /\ UNCHANGED <<seq, assigned, task, now, tz, pc, lock>>

\* Storage.clear_completed()
clear_completed ==
    /\ rows' = rows \ DeletedCompleted(rows)
    /\ op' = "clear_completed"
    /\ arg' = 0
    /\ ret' = Cardinality(DeletedCompleted(rows))
    /\ UNCHANGED <<seq, assigned, task, now, tz, pc, lock>>

\* task = storage.get_task(task_id), the caller keeping a task that was found
GetTask(id) ==
    /\ ret' = get_task(rows, id)
    /\ task' = IF ret' # None /\ ret'[1] # TypeErrorRaised THEN ret' ELSE task
    /\ op' = "get_task"
    /\ arg' = id
    /\ UNCHANGED <<rows, seq, assigned, now, tz, pc, lock>>

\* the readings a second look at the clock can give
Later(n, limit) == {m \in {n, n + 1} : m <= limit}

\* storage.get_tasks_due_today(): the clock is read twice and may advance
\* in between
GetTasksDueToday(limit) ==
    \E n2 \in Later(now, limit) :
        /\ ret' = get_tasks_due_today(rows, now, n2, tz)
        /\ now' = n2
        /\ op' = "get_tasks_due_today"
        /\ arg' = now
        /\ UNCHANGED <<rows, seq, assigned, task, tz, pc, lock>>

\* Storage() on the file that holds the table already, as get_storage()
\* does in every command: a new lock and _init_db
OpenStorage ==
    /\ rows' = _init_db(TRUE, rows, seq).rows
    /\ seq' = _init_db(TRUE, rows, seq).seq
    /\ lock' = FALSE
    /\ op' = "Storage"
    /\ arg' = 0
    /\ ret' = None
    /\ UNCHANGED <<assigned, task, now, tz, pc>>

\* the value a caller is left with when a call raises sqlite3.Error
StorageFailure == [raised |-> "sqlite3.Error"]

\* SQLite lets one connection at a time hold an uncommitted write: the
\* statement of thread t waits while another thread's is not yet committed
WriteLocked(t) == \E u \in Threads \ {t} : pc[u].at = "executed"

\* thread t calls create_task(task) with a task that has no id, or
\* update_task(task) with one that has: `with sqlite3.connect(...) as conn`
\* opens a connection of its own; self._lock is not acquired
Connect(t, call) ==
    /\ pc[t] = Idle
    /\ task # None
    /\ (call = "create_task") = (task[1].id = None)
    /\ pc' = [pc EXCEPT ![t] = [at |-> "connected", call |-> call,
                                task |-> task[1]]]
    /\ op' = "connect"
    /\ arg' = t
    /\ ret' = None
    /\ UNCHANGED <<rows, seq, assigned, task, now, tz, lock>>

\* conn.execute(INSERT ...) followed by task.id = cursor.lastrowid, or
\* conn.execute(UPDATE ...): the change is made in an open transaction, undo
\* keeping what a rollback restores; at most limit ids are handed out
Execute(t, limit) ==
    /\ pc[t].at = "connected"
    /\ ~WriteLocked(t)
    /\ IF pc[t].call = "create_task"
       THEN /\ seq < limit
            /\ rows' = InsertRow(rows, seq, pc[t].task)
            /\ seq' = NextRowid(rows, seq)
            /\ pc' = [pc EXCEPT ![t] =
                         [at |-> "executed", call |-> pc[t].call,
                          task |-> [pc[t].task EXCEPT
                                       !.id = Some(NextRowid(rows, seq))],
                          undo |-> [rows |-> rows, seq |-> seq]]]
       ELSE /\ rows' = UpdateRows(rows, pc[t].task)
            /\ pc' = [pc EXCEPT ![t] =
                         [at |-> "executed", call |-> pc[t].call,
                          task |-> pc[t].task,
                          undo |-> [rows |-> rows, seq |-> seq]]]
            /\ UNCHANGED seq
    /\ op' = "execute"
    /\ arg' = t
    /\ ret' = None
    /\ UNCHANGED <<assigned, task, now, tz, lock>>

\* conn.commit() succeeds and the call returns the task, with the id it
\* was handed when the call was create_task
Commit(t) ==
    /\ pc[t].at = "executed"
    /\ pc' = [pc EXCEPT ![t] = Idle]
    /\ task' = Some(pc[t].task)
    /\ assigned' = IF pc[t].call = "create_task"
                   THEN Append(assigned, pc[t].task.id[1])
                   ELSE assigned
    /\ op' = "commit"
    /\ arg' = t
    /\ ret' = Some(pc[t].task)
    /\ UNCHANGED <<rows, seq, now, tz, lock>>

\* conn.execute or conn.commit raises sqlite3.Error: leaving the with block
\* rolls the open transaction back and the error reaches the caller, whose
\* task object is as the call left it
Fail(t) ==
    /\ pc[t].at \in {"connected", "executed"}
    /\ rows' = IF pc[t].at = "executed" THEN pc[t].undo.rows ELSE rows
    /\ seq' = IF pc[t].at = "executed" THEN pc[t].undo.seq ELSE seq
    /\ pc' = [pc EXCEPT ![t] = Idle]
    /\ task' = Some(pc[t].task)
    /\ op' = "failed"
    /\ arg' = t
    /\ ret' = Some(StorageFailure)
    /\ UNCHANGED <<assigned, now, tz, lock>>

---------------------------------------------------------------------------
(* Commands (cli.py): every invocation is a process of its own on the same *)
(* database; pc[p] holds the task a command has fetched and will write     *)

\* an option that was given with a text that is not empty
Given(option) == option # None /\ Len(option[1]) > 0

\* `add` that does not look at what parse_date returned
add_unchecked(description, priority, due, tag, limit) ==
    LET made == Task(description, "medium", None, FALSE, <<>>, None, None,
                     None, None, now, now, tz)
        t == [made EXCEPT
                 !.priority = IF Given(priority)
                              THEN parse_priority(priority[1]) ELSE @,
                 !.due_date = IF Given(due) THEN parse_date(due[1]) ELSE @,
                 !.tags = IF Given(tag) THEN parse_tags(tag[1]) ELSE @]
    IN /\ seq < limit
       /\ rows' = InsertRow(rows, seq, t)
       /\ seq' = NextRowid(rows, seq)
       /\ assigned' = Append(assigned, NextRowid(rows, seq))
       /\ task' = Some([t EXCEPT !.id = Some(NextRowid(rows, seq))])
       /\ ret' = "Task created"
       /\ op' = "add"
       /\ arg' = [description |-> description, priority |-> priority,
                  due |-> due, tag |-> tag]
       /\ UNCHANGED <<now, tz, pc, lock>>

\* the command `add`: Task(description), the options assigned to its
\* fields, an unparsed due date ending the command, then create_task
add(description, priority, due, tag, limit) ==
    LET made == Task(description, "medium", None, FALSE, <<>>, None, None,
                     None, None, now, now, tz)
        t == [made EXCEPT
                 !.priority = IF Given(priority)
                              THEN parse_priority(priority[1]) ELSE @,
                 !.due_date = IF Given(due) THEN parse_date(due[1]) ELSE @,
                 !.tags = IF Given(tag) THEN parse_tags(tag[1]) ELSE @]
    IN /\ seq < limit
       /\ IF Given(due) /\ parse_date(due[1]) = None
          THEN /\ ret' = "Invalid due date"
               /\ UNCHANGED <<rows, seq, assigned, task>>
          ELSE /\ rows' = InsertRow(rows, seq, t)
               /\ seq' = NextRowid(rows, seq)
               /\ assigned' = Append(assigned, NextRowid(rows, seq))
               /\ task' = Some([t EXCEPT !.id = Some(NextRowid(rows, seq))])
               /\ ret' = "Task created"
       /\ op' = "add"
       /\ arg' = [description |-> description, priority |-> priority,
                  due |-> due, tag |-> tag]
       /\ UNCHANGED <<now, tz, pc, lock>>

\* `done` without the test of task.completed
done_unchecked(p, task_id, n2) ==
    LET id == validate_task_id(task_id)
        found == IF id = None THEN None ELSE get_task(rows, id[1])
    IN /\ pc[p] = Idle
       /\ IF id = None
          THEN ret' = "Invalid task ID" /\ UNCHANGED <<pc, now>>
          ELSE IF found = None
          THEN ret' = "not found" /\ UNCHANGED <<pc, now>>
          ELSE /\ pc' = [pc EXCEPT ![p] =
                            [at |-> "update", cmd |-> "done",
                             task |-> mark_completed(found[1], now, n2, tz)]]
               /\ now' = n2
               /\ ret' = "fetched"
       /\ op' = "done"
       /\ arg' = task_id
       /\ UNCHANGED <<rows, seq, assigned, task, tz, lock>>

\* the command `done` up to its call of update_task: the id is validated,
\* the task fetched, and marked completed when it is still pending
done(p, task_id, n2) ==
    LET id == validate_task_id(task_id)
        found == IF id = None THEN None ELSE get_task(rows, id[1])
    IN /\ pc[p] = Idle
       /\ IF id = None
          THEN ret' = "Invalid task ID" /\ UNCHANGED <<pc, now>>
          ELSE IF found = None
          THEN ret' = "not found" /\ UNCHANGED <<pc, now>>
          ELSE IF found[1].completed
          THEN ret' = "already completed" /\ UNCHANGED <<pc, now>>
          ELSE /\ pc' = [pc EXCEPT ![p] =
                            [at |-> "update", cmd |-> "done",
                             task |-> mark_completed(found[1], now, n2, tz)]]
               /\ now' = n2
               /\ ret' = "fetched"
       /\ op' = "done"
       /\ arg' = task_id
       /\ UNCHANGED <<rows, seq, assigned, task, tz, lock>>

\* the command `edit` up to its call of update_task: the task is fetched and
\* the given options applied by the mutators; an unparsed due date ends the
\* command
edit(p, task_id, description, priority, due, tag) ==
    LET id == validate_task_id(task_id)
        found == IF id = None THEN None ELSE get_task(rows, id[1])
        t1 == IF Given(description)
              THEN update_description(found[1], description[1], now, tz)
              ELSE found[1]
        t2 == IF Given(priority)
              THEN update_priority(t1, parse_priority(priority[1]), now, tz)
              ELSE t1
        t3 == IF Given(due)
              THEN update_due_date(t2, parse_date(due[1]), now, tz)
              ELSE t2
        t4 == IF Given(tag) THEN AddTags(t3, parse_tags(tag[1]), now, tz)
              ELSE t3
    IN /\ pc[p] = Idle
       /\ IF id = None
          THEN ret' = "Invalid task ID" /\ UNCHANGED pc
          ELSE IF found = None
          THEN ret' = "not found" /\ UNCHANGED pc
          ELSE IF Given(due) /\ parse_date(due[1]) = None
          THEN ret' = "Invalid due date" /\ UNCHANGED pc
          ELSE /\ pc' = [pc EXCEPT ![p] =
                            [at |-> "update", cmd |-> "edit", task |-> t4]]
               /\ ret' = "fetched"
       /\ op' = "edit"
       /\ arg' = [task_id |-> task_id, description |-> description,
                  priority |-> priority, due |-> due, tag |-> tag]
       /\ UNCHANGED <<rows, seq, assigned, task, now, tz, lock>>

\* storage.update_task(task) at the end of `done` and `edit`
CommandUpdate(p) ==
    /\ pc[p] # Idle
    /\ pc[p].at = "update"
    /\ rows' = UpdateRows(rows, pc[p].task)
    /\ pc' = [pc EXCEPT ![p] = Idle]
    /\ task' = Some(pc[p].task)
    /\ op' = "command_update"
    /\ arg' = p
    /\ ret' = pc[p].cmd
    /\ UNCHANGED <<seq, assigned, now, tz, lock>>

\* the command `delete`: the task is fetched and, when the user confirms,
\* deleted
delete(task_id, confirmed) ==
    LET id == validate_task_id(task_id)
        found == IF id = None THEN None ELSE get_task(rows, id[1])
    IN /\ IF id = None
          THEN ret' = "Invalid task ID" /\ UNCHANGED rows
          ELSE IF found = None
          THEN ret' = "not found" /\ UNCHANGED rows
          ELSE IF confirmed
          THEN /\ rows' = rows \ DeletedById(rows, id[1])
               /\ ret' = "deleted"
          ELSE ret' = "kept" /\ UNCHANGED rows
       /\ op' = "delete"
       /\ arg' = task_id
       /\ UNCHANGED <<seq, assigned, task, now, tz, pc, lock>>

\* the command `clear`
clear ==
    /\ rows' = rows \ DeletedCompleted(rows)
    /\ ret' = Cardinality(DeletedCompleted(rows))
    /\ op' = "clear"
    /\ arg' = 0
    /\ UNCHANGED <<seq, assigned, task, now, tz, pc, lock>>

\* the readings of the clock that k successive calls of datetime.now() can
\* give from the reading n on
ClockReadings(n, k, limit) ==
    {f \in [1 .. k -> n .. limit] : \A i \in 1 .. (k - 1) : f[i] <= f[i + 1]}

\* [task for task in today_tasks if not task.is_overdue]: each task's
\* is_overdue reads the clock for itself
RECURSIVE today_only(_, _, _)
today_only(tasks, readings, zone) ==
    IF Len(tasks) = 0 THEN <<>>
    ELSE (IF is_overdue(Head(tasks), Head(readings), zone)
          THEN <<>> ELSE <<Head(tasks)>>)
         \o today_only(Tail(tasks), Tail(readings), zone)

\* the command `today`: the due-today query reads the clock twice, the
\* overdue query once more, and the filter once for every task due today;
\* a table is rendered when its list is not empty
today(limit) ==
    \E n2 \in Later(now, limit) : \E n3 \in Later(n2, limit) :
        LET today_tasks == get_tasks_due_today(rows, now, n2, tz)
            overdue_tasks == get_overdue_tasks(rows, n3, tz)
        IN \E readings \in ClockReadings(n3, Len(today_tasks), limit) :
               /\ ret' = [today_tasks |-> today_tasks,
                          overdue_table |-> overdue_tasks,
                          due_today_table |->
                              today_only(today_tasks, readings, tz),
                          info |-> IF today_tasks = <<>> /\ overdue_tasks = <<>>
                                   THEN "No tasks due today" ELSE ""]
               /\ now' = IF Len(today_tasks) = 0 THEN n3
                         ELSE readings[Len(today_tasks)]
               /\ op' = "today"
               /\ arg' = now
               /\ UNCHANGED <<rows, seq, assigned, task, tz, pc, lock>>

---------------------------------------------------------------------------
(* Spec: the store under create, update, delete and clear, in the UTC zone *)

Descriptions == {<<ChA>>, <<ChB>>}

TaskIds == 1 .. (MaxId + 1)

InitUTC == Init /\ tz = 0

Next ==
    \/ Tick(MaxNow)
    \/ \E d \in Descriptions : NewTask(d, "medium", None, <<>>, now)
    \/ MarkCompleted(now)
    \/ create_task(MaxId)
    \/ update_task
    \/ \E id \in TaskIds : delete_task(id)
    \/ clear_completed
    \/ \E id \in TaskIds : GetTask(id)

Spec == InitUTC /\ [][Next]_vars

---------------------------------------------------------------------------
(* SpecRoundTrip: a task with any field values is stored and read back *)

MaxStored == 1   \* create_task is called at most MaxStored times

\* tags: none, one, two, one tag holding a comma
TagLists ==
    {<<>>, <<<<ChA>>>>, <<<<ChA>>, <<ChB>>>>, <<<<ChA, Comma, ChB>>>>}

\* the tags the caller adds: a letter, the empty string, one ending in a comma
AddedTags == {<<ChB>>, <<>>, <<ChB, Comma>>}

Stamps == {<<0, 0>>, <<0, 1>>}

\* the tasks the caller constructs, every field given
GivenTasks ==
    {Task(d, p, due, c, tg, None, Some(<<0, 0>>), Some(up), ca, 0, 0, 0) :
        d \in {<<>>, <<ChA>>}, p \in Priority,
        due \in {None, Some(<<1, 0>>)}, c \in BOOLEAN, tg \in TagLists,
        up \in Stamps, ca \in {None, Some(<<0, 1>>)}}

InitRoundTrip ==
    /\ op = "init"
    /\ arg = 0
    /\ ret = None
    /\ rows = {}
    /\ seq = 0
    /\ assigned = <<>>
    /\ task \in {Some(t) : t \in GivenTasks}
    /\ now = 0
    /\ tz = 0
    /\ pc = [t \in Threads |-> Idle]
    /\ lock = FALSE

NextRoundTrip ==
    \/ create_task(MaxStored)
    \/ update_task
    \/ MarkCompleted(now)
    \/ \E d \in Descriptions : UpdateDescription(d)
    \/ \E tag \in AddedTags : AddTag(tag)

SpecRoundTrip == InitRoundTrip /\ [][NextRoundTrip]_vars

---------------------------------------------------------------------------
(* SpecSearch: tasks with descriptions and tags, searched *)

SearchDescriptions == {<<ChA, ChB>>, <<ChUpperA>>, <<ChB, Underscore>>}

SearchTagLists == {<<>>, <<<<ChA>>, <<ChB>>>>, <<<<ChB, ChA>>>>}

Queries ==
    {<<>>, <<ChA>>, <<ChUpperA, ChB>>, <<ChA, Comma, ChB>>, <<ChB, ChB>>,
     <<Underscore>>, <<Percent>>}

NextSearch ==
    \/ \E d \in SearchDescriptions, tg \in SearchTagLists :
           NewTask(d, "medium", None, tg, now)
    \/ create_task(MaxId)
    \/ \E id \in TaskIds : delete_task(id)

SpecSearch == InitUTC /\ [][NextSearch]_vars

---------------------------------------------------------------------------
(* SpecClock: tasks with due dates while time passes, in any time zone *)

MaxTick == 2    \* the clock of SpecClock stops after MaxTick ticks

DueDates == {None, Some(<<0, 0>>), Some(<<1, 0>>)}

NextClock ==
    \/ Tick(MaxTick)
    \/ \E due \in DueDates : NewTask(<<ChA>>, "medium", due, <<>>, now)
    \/ MarkCompleted(now)
    \/ create_task(MaxId)
    \/ update_task

SpecClock == Init /\ [][NextClock]_vars

---------------------------------------------------------------------------
(* SpecToday: the tasks due today are listed while time passes *)

NextToday ==
    \/ Tick(MaxTick)
    \/ \E due \in DueDates : NewTask(<<ChA>>, "medium", due, <<>>, now)
    \/ MarkCompleted(now)
    \/ create_task(MaxId)
    \/ update_task
    \/ GetTasksDueToday(MaxTick)

SpecToday == Init /\ [][NextToday]_vars

---------------------------------------------------------------------------
(* SpecRecord: one task in memory under its mutators, in any time zone *)

Tags == {<<ChA>>, <<ChB>>}

NextRecord ==
    \/ Tick(MaxTick)
    \/ \E d \in Descriptions : NewTask(d, "medium", None, <<>>, now)
    \/ MarkCompleted(now)
    \/ \E d \in Descriptions : UpdateDescription(d)
    \/ \E p \in Priority : UpdatePriority(p)
    \/ \E due \in DueDates : UpdateDueDate(due)
    \/ \E tag \in Tags : AddTag(tag)
    \/ \E tag \in Tags : RemoveTag(tag)

SpecRecord == Init /\ [][NextRecord]_vars

---------------------------------------------------------------------------
(* SpecComplete: tasks are completed, persisted and fetched while time passes *)

NextComplete ==
    \/ Tick(MaxTick)
    \/ \E n2 \in Later(now, MaxTick) : NewTask(<<ChA>>, "medium", None, <<>>, n2)
    \/ \E n2 \in Later(now, MaxTick) : MarkCompleted(n2)
    \/ create_task(MaxId)
    \/ update_task
    \/ \E id \in TaskIds : GetTask(id)

SpecComplete == Init /\ [][NextComplete]_vars

---------------------------------------------------------------------------
(* SpecPersist: a stored task is fetched, changed in memory and persisted *)

NextPersist ==
    \/ NewTask(<<ChA>>, "medium", None, <<>>, now)
    \/ MarkCompleted(now)
    \/ UpdateDescription(<<ChB>>)
    \/ UpdatePriority("high")
    \/ UpdateDueDate(Some(<<1, 0>>))
    \/ AddTag(<<ChA>>)
    \/ RemoveTag(<<ChA>>)
    \/ create_task(MaxStored)
    \/ update_task
    \/ \E id \in TaskIds : GetTask(id)

SpecPersist == InitUTC /\ [][NextPersist]_vars

---------------------------------------------------------------------------
(* SpecThreads: threads share one Storage object; its calls take steps that *)
(* interleave and may fail                                                  *)

Calls == {"create_task", "update_task"}

NextThreads ==
    \/ NewTask(<<ChA>>, "medium", None, <<>>, now)
    \/ MarkCompleted(now)
    \/ \E t \in Threads, call \in Calls : Connect(t, call)
    \/ \E t \in Threads : Execute(t, MaxId)
    \/ \E t \in Threads : Commit(t)
    \/ \E t \in Threads : Fail(t)

SpecThreads == InitUTC /\ [][NextThreads]_vars

---------------------------------------------------------------------------
(* SpecOrder: tasks made at any time are persisted in any order and listed *)

CreationTimes == {<<0, 0>>, <<0, 1>>, <<1, 0>>}

OrderQueries == {<<>>, <<ChA>>}

NextOrder ==
    \/ \E d \in Descriptions, c \in CreationTimes : NewTaskAt(d, c)
    \/ MarkCompleted(now)
    \/ create_task(MaxId)
    \/ update_task
    \/ \E id \in TaskIds : delete_task(id)

SpecOrder == InitUTC /\ [][NextOrder]_vars

---------------------------------------------------------------------------
(* SpecStore: the store is opened again and again between its operations *)

NextStore ==
    \/ OpenStorage
    \/ \E d \in Descriptions : NewTask(d, "medium", None, <<>>, now)
    \/ MarkCompleted(now)
    \/ create_task(MaxId)
    \/ update_task
    \/ \E id \in TaskIds : delete_task(id)
    \/ clear_completed
    \/ \E id \in TaskIds : GetTask(id)

SpecStore == InitUTC /\ [][NextStore]_vars

---------------------------------------------------------------------------
(* SpecInvariant: tasks constructed pending or completed, changed in memory *)
(* and persisted                                                            *)

NextInvariant ==
    \/ \E c \in BOOLEAN : NewTaskCompleted(<<ChA>>, c)
    \/ MarkCompleted(now)
    \/ UpdateDescription(<<ChB>>)
    \/ UpdatePriority("high")
    \/ UpdateDueDate(Some(<<1, 0>>))
    \/ AddTag(<<ChA>>)
    \/ RemoveTag(<<ChA>>)
    \/ create_task(MaxStored)
    \/ update_task

SpecInvariant == InitUTC /\ [][NextInvariant]_vars

---------------------------------------------------------------------------
(* SpecCli: commands run one after another; SpecRace: commands run as    *)
(* processes whose steps interleave                                      *)

IdTexts == {<<Ch0 + 1>>, <<Ch0>>, <<Minus, Ch0 + 1>>, <<ChI>>}

DueTexts == {None, Some(<<ChI>>), Some(<<Ch0 + 1, ChT, Ch0>>)}

\* no command is between its get_task and its update_task
NoCommandRunning == \A p \in Threads : pc[p] = Idle

NextCli ==
    \/ \E due \in DueTexts : add(<<ChA>>, None, due, None, MaxStored)
    \/ /\ NoCommandRunning
       /\ \E p \in Threads, id \in IdTexts, n2 \in Later(now, MaxNow) :
              done(p, id, n2)
    \/ /\ NoCommandRunning
       /\ \E p \in Threads, id \in IdTexts, due \in DueTexts :
              edit(p, id, Some(<<ChB>>), Some(<<ChH>>), due, Some(<<ChB>>))
    \/ \E p \in Threads : CommandUpdate(p)
    \/ \E id \in IdTexts, confirmed \in BOOLEAN : delete(id, confirmed)
    \/ clear

SpecCli == InitUTC /\ [][NextCli]_vars

NextRace ==
    \/ \E due \in DueTexts : add(<<ChA>>, None, due, None, MaxStored)
    \/ \E p \in Threads, id \in IdTexts, n2 \in Later(now, MaxNow) :
           done(p, id, n2)
    \/ \E p \in Threads, id \in IdTexts, due \in DueTexts :
           edit(p, id, Some(<<ChB>>), Some(<<ChH>>), due, Some(<<ChB>>))
    \/ \E p \in Threads : CommandUpdate(p)
    \/ \E id \in IdTexts, confirmed \in BOOLEAN : delete(id, confirmed)
    \/ clear

SpecRace == InitUTC /\ [][NextRace]_vars

---------------------------------------------------------------------------
(* SpecTodayCommand: the command `today` while time passes *)

NextTodayCommand ==
    \/ Tick(MaxTick)
    \/ \E due \in DueDates : NewTask(<<ChA>>, "medium", due, <<>>, now)
    \/ MarkCompleted(now)
    \/ create_task(MaxId)
    \/ update_task
    \/ today(MaxTick)

SpecTodayCommand == Init /\ [][NextTodayCommand]_vars


---------------------------------------------------------------------------
(* Properties of the store *)

Range(list) == {list[i] : i \in DOMAIN list}

\* the Task of the caller's variable, when it holds one
TheTask == task[1]

\* C2: list_pending() and list_completed() partition list_all(): every task
\* of list_all() is in exactly one of the two, neither holds a task that is
\* not in list_all(), and neither repeats a task.
ListsPartitionAll ==
    LET all == get_all_tasks(rows)
        pending == get_pending_tasks(rows)
        completed == get_completed_tasks(rows)
    IN /\ \A t \in Range(all) :
              (t \in Range(pending)) # (t \in Range(completed))
       /\ Range(pending) \subseteq Range(all)
       /\ Range(completed) \subseteq Range(all)
       /\ Len(pending) + Len(completed) = Len(all)

\* a completed task has just been persisted beside a pending one
PartitionWitness ==
    /\ op = "update_task"
    /\ Len(get_pending_tasks(rows)) >= 1
    /\ Len(get_completed_tasks(rows)) >= 1

\* C4: stats() counts the stored tasks: total is their number, pending the
\* number with completed = false, completed the number with completed = true,
\* and total = pending + completed.
StatsCountTasks ==
    LET stats == get_task_stats(rows, now)
        all == get_all_tasks(rows)
    IN /\ stats.total = Cardinality(rows)
       /\ stats.total = Len(all)
       /\ stats.pending = Cardinality({i \in DOMAIN all : ~all[i].completed})
       /\ stats.completed = Cardinality({i \in DOMAIN all : all[i].completed})
       /\ stats.total = stats.pending + stats.completed

\* two tasks were created and one of them completed
StatsWitness ==
    /\ op = "update_task"
    /\ get_task_stats(rows, now).total = 2
    /\ get_task_stats(rows, now).pending = 1
    /\ get_task_stats(rows, now).completed = 1

UpdateFrame ==
    [][op' = "update_task" =>
          /\ Cardinality(rows') = Cardinality(rows)
          /\ \A r \in rows :
                 \E r2 \in rows' : /\ r2.id = r.id
                                   /\ r2.created_at = r.created_at
                                   /\ (TheTask.id # Some(r.id) => r2 = r)
          /\ (TheTask.id = None \/ TheTask.id[1] \notin Ids(rows)) =>
                 rows' = rows]_vars

\* update_task was given a task whose row is gone while another row exists
UpdateFrameWitness ==
    /\ op = "update_task"
    /\ TheTask.id # None
    /\ TheTask.id[1] \notin Ids(rows)
    /\ rows # {}
    /\ \E r \in rows : r.description # TheTask.description

\* C9: delete_task returns true exactly when a row had the id, removes that
\* row and no other, get_task of the id finds nothing afterwards, and for an
\* id no row has it returns false and leaves the table as it is.
DeleteExact ==
    [][op' = "delete_task" =>
          /\ ret' = (arg' \in Ids(rows))
          /\ rows' = {r \in rows : r.id # arg'}
          /\ get_task(rows', arg') = None
          /\ arg' \notin Ids(rows) => (ret' = FALSE /\ rows' = rows)]_vars

\* delete_task removed a row and left another
DeleteWitness ==
    /\ op = "delete_task"
    /\ ret = TRUE
    /\ rows # {}
    /\ arg < MaxRowid(rows)

\* C10: clear_completed removes exactly the rows with completed = true,
\* leaves the pending rows as they are and returns the number it removed; a
\* second call right after it returns 0 and changes nothing.
ClearExact ==
    [][op' = "clear_completed" =>
          /\ rows' = {r \in rows : r.completed = 0}
          /\ \A i \in Ids(rows) :
                 i \in Ids(rows') <=> ~get_task(rows, i)[1].completed
          /\ ret' = Cardinality(rows) - Cardinality(rows')
          /\ op = "clear_completed" => (ret' = 0 /\ rows' = rows)]_vars

\* clear_completed removed a completed row and left a pending one
ClearWitness ==
    /\ op = "clear_completed"
    /\ ret >= 1
    /\ rows # {}

---------------------------------------------------------------------------
(* Properties of the row mapping, the search and the statistics *)

\* C1: get_task of the id create_task returned yields a task equal to the
\* created one in every field, the id included now that it is set.
CreateGetRoundTrip ==
    op = "create_task" => get_task(rows, TheTask.id[1]) = Some(TheTask)

\* C7: after update_task of a task whose id is in the table, get_task of the
\* id returns the description, priority, due_date, completed, tags,
\* updated_at and completed_at of the in-memory task, and update_task
\* returned the task it was given.
UpdateGetRoundTrip ==
    (op = "update_task" /\ TheTask.id # None /\ TheTask.id[1] \in Ids(rows)) =>
        LET got == get_task(rows, TheTask.id[1])[1] IN
        /\ got # TypeErrorRaised
        /\ got.description = TheTask.description
        /\ got.priority = TheTask.priority
        /\ got.due_date = TheTask.due_date
        /\ got.completed = TheTask.completed
        /\ got.tags = TheTask.tags
        /\ got.updated_at = TheTask.updated_at
        /\ got.completed_at = TheTask.completed_at
        /\ ret = task

\* q occurs in text, ASCII case disregarded
CISubstring(q, text) ==
    \E i \in 0 .. (Len(text) - Len(q)) :
        \A k \in 1 .. Len(q) : Fold(q[k]) = Fold(text[i + k])

\* C6: search(q) returns exactly the stored tasks for which q is a
\* case-insensitive substring of the description or of the comma-joined tag
\* text, for every query q.
SearchIsSubstringMatch ==
    \A q \in Queries :
        LET all == get_all_tasks(rows)
            found == search_tasks(rows, q)
        IN {t.id : t \in Range(found)} =
           {t.id : t \in {u \in Range(all) :
                              \/ CISubstring(q, u.description)
                              \/ CISubstring(q, Join(u.tags))}}

\* C3: the overdue count of stats() equals the number of tasks list_overdue()
\* returns at the same instant, which is the number of pending tasks with a
\* due date before now.
OverdueCountMatchesList ==
    LET all == get_all_tasks(rows)
        passed == {i \in DOMAIN all :
                      /\ ~all[i].completed
                      /\ all[i].due_date # None
                      /\ \/ all[i].due_date[1][1] < LocalNow(now, tz)[1]
                         \/ /\ all[i].due_date[1][1] = LocalNow(now, tz)[1]
                            /\ all[i].due_date[1][2] < LocalNow(now, tz)[2]}
    IN /\ get_task_stats(rows, now).overdue
              = Len(get_overdue_tasks(rows, now, tz))
       /\ get_task_stats(rows, now).overdue = Cardinality(passed)

---------------------------------------------------------------------------
(* Properties of the dated queries *)

\* datetime a is earlier than datetime b
DtLess(a, b) == a[1] < b[1] \/ (a[1] = b[1] /\ a[2] < b[2])

\* C11: list_overdue() returns exactly the stored tasks that are not
\* completed and have a due date before now, each once, in ascending order
\* of due date; so a task without a due date and a task persisted as
\* completed are never returned.
OverdueListExact ==
    LET all == get_all_tasks(rows)
        list == get_overdue_tasks(rows, now, tz)
    IN /\ Range(list) =
              {t \in Range(all) : /\ ~t.completed
                                  /\ t.due_date # None
                                  /\ DtLess(t.due_date[1], LocalNow(now, tz))}
       /\ Len(list) = Cardinality(Range(list))
       /\ \A i, j \in DOMAIN list :
              i < j => ~DtLess(list[j].due_date[1], list[i].due_date[1])

\* an overdue task was completed and persisted while another stays overdue
OverdueWitness ==
    /\ op = "update_task"
    /\ TheTask.completed
    /\ TheTask.id # None
    /\ TheTask.id[1] \in Ids(rows)
    /\ TheTask.due_date # None
    /\ DtLess(TheTask.due_date[1], LocalNow(now, tz))
    /\ Len(get_overdue_tasks(rows, now, tz)) = 1

\* the stored tasks that are not completed and due on the day of reading n
PendingDueOn(n) ==
    {t \in Range(get_all_tasks(rows)) : ~t.completed /\ is_due_today(t, n, tz)}

\* C12: list_due_today() returns exactly the stored tasks that are not
\* completed and whose due date falls on today's date, today being the day
\* at the start or at the end of the call; is_due_today holds for a task due
\* today whether completed or not, and a completed one is not returned.
DueTodayListExact ==
    op = "get_tasks_due_today" =>
        /\ \E n \in {arg, now} : Range(ret) = PendingDueOn(n)
        /\ \A t \in Range(ret) : ~t.completed

---------------------------------------------------------------------------
(* Properties of the record mutators *)

\* the number of occurrences of x in list
RECURSIVE Count(_, _)
Count(x, list) ==
    IF Len(list) = 0 THEN 0
    ELSE (IF Head(list) = x THEN 1 ELSE 0) + Count(x, Tail(list))

\* C14: add_tag(x) is idempotent: on a task without x it appends x, which
\* then occurs exactly once; on a task that has x already (so as a second
\* call) it leaves the tag list, updated_at and the whole task unchanged.
AddTagIdempotent ==
    [][op' = "add_tag" =>
          IF Count(arg', TheTask.tags) = 0
          THEN /\ TheTask'.tags = TheTask.tags \o <<arg'>>
               /\ Count(arg', TheTask'.tags) = 1
          ELSE task' = task]_vars

\* add_tag(x) was called on a task that had x and another tag, after the
\* clock had moved past the task's updated_at
AddTagWitness ==
    /\ op = "add_tag"
    /\ Len(TheTask.tags) = 2
    /\ Count(arg, TheTask.tags) = 1
    /\ TheTask.updated_at # Some(LocalNow(now, tz))

\* C15: remove_tag(x) on a task whose tag list does not hold x changes
\* nothing: the tag list, updated_at and every other field stay as they were.
RemoveAbsentTagNoop ==
    [][op' = "remove_tag" /\ Count(arg', TheTask.tags) = 0 =>
          task' = task]_vars

\* remove_tag(x) was called on a task with another tag and without x,
\* after the clock had moved past the task's updated_at
RemoveAbsentTagWitness ==
    /\ op = "remove_tag"
    /\ Len(TheTask.tags) = 1
    /\ Count(arg, TheTask.tags) = 0
    /\ TheTask.updated_at # Some(LocalNow(now, tz))

\* C16: update_description, update_priority and update_due_date replace
\* their own field by the argument and set updated_at to the current time,
\* which is not earlier than the former updated_at; every other field stays.
FieldUpdateFrame ==
    [][LET old == TheTask
           stamped == [old EXCEPT !.updated_at = Some(LocalNow(now', tz))]
       IN /\ (op' = "update_description" =>
                 TheTask' = [stamped EXCEPT !.description = arg'])
          /\ (op' = "update_priority" =>
                 TheTask' = [stamped EXCEPT !.priority = arg'])
          /\ (op' = "update_due_date" =>
                 TheTask' = [stamped EXCEPT !.due_date = arg'])
          /\ (op' \in {"update_description", "update_priority",
                       "update_due_date"} =>
                 ~DtLess(TheTask'.updated_at[1], old.updated_at[1]))]_vars

\* a field of a completed, tagged task was updated after the clock had
\* moved on since its creation
FieldUpdateWitness ==
    /\ op = "update_priority"
    /\ TheTask.priority = "high"
    /\ TheTask.completed
    /\ TheTask.tags # <<>>
    /\ TheTask.due_date # None
    /\ TheTask.updated_at # TheTask.created_at

\* C13: mark_completed() sets completed and stamps completed_at and
\* updated_at with the current time; once the task is persisted with update,
\* get returns it completed, with completed_at not before created_at and
\* updated_at not before the updated_at that was stored before.
MarkCompletedPersists ==
    [][/\ (op' = "mark_completed" =>
              /\ TheTask'.completed
              /\ TheTask'.completed_at = Some(LocalNow(now, tz))
              /\ TheTask'.updated_at = Some(LocalNow(now', tz))
              /\ TheTask' = [TheTask EXCEPT
                                !.completed = TRUE,
                                !.completed_at = TheTask'.completed_at,
                                !.updated_at = TheTask'.updated_at])
       /\ (/\ op' = "update_task"
           /\ TheTask.completed
           /\ TheTask.id # None
           /\ TheTask.id[1] \in Ids(rows)
           => LET before == get_task(rows, TheTask.id[1])[1]
                  after == get_task(rows', TheTask.id[1])[1]
              IN /\ after.completed
                 /\ after.completed_at # None
                 /\ after.completed_at = TheTask.completed_at
                 /\ ~DtLess(after.completed_at[1], after.created_at[1])
                 /\ ~DtLess(after.updated_at[1], before.updated_at[1]))]_vars

\* a task completed after its creation, the clock moving during the call,
\* was persisted and fetched again
MarkCompletedWitness ==
    /\ op = "get_task"
    /\ ret # None
    /\ ret[1].completed
    /\ DtLess(ret[1].created_at[1], ret[1].completed_at[1])
    /\ DtLess(ret[1].completed_at[1], ret[1].updated_at[1])

\* the calls that change a task in memory
Mutators ==
    {"mark_completed", "update_description", "update_priority",
     "update_due_date", "add_tag", "remove_tag"}

\* C17: no record mutator touches the store: the rows stay as they were and
\* get returns for every id what it returned before; the rows change only in
\* a call of the store.
NoAutosave ==
    [][/\ (op' \in Mutators =>
              /\ rows' = rows
              /\ seq' = seq
              /\ \A id \in TaskIds : get_task(rows', id) = get_task(rows, id))
       /\ (rows' # rows => op' \in {"create_task", "update_task"})]_vars

\* a mutator has changed a stored task in memory and get still returns the
\* persisted values
NoAutosaveWitness ==
    /\ op = "remove_tag"
    /\ task # None
    /\ TheTask.completed
    /\ TheTask.priority = "high"
    /\ TheTask.id # None
    /\ TheTask.id[1] \in Ids(rows)
    /\ get_task(rows, TheTask.id[1]) # task
    /\ ~get_task(rows, TheTask.id[1])[1].completed
    /\ get_task(rows, TheTask.id[1])[1].tags = <<<<ChA>>>>

---------------------------------------------------------------------------
(* Properties of the store's calls under threads and failures *)

\* C18: the store guards its access with mutual exclusion: at no time are
\* two threads inside the database section of a call on the same store.
MutualExclusion ==
    Cardinality({t \in Threads : pc[t] # Idle}) <= 1

\* C19: create is all-or-nothing: when create_task fails, at its statement
\* or at its commit, no row has been added and the caller's task still has
\* no id; when it succeeds, one row has been added and the task carries the
\* id of that row.
CreateAllOrNothing ==
    [][\A t \in Threads :
          pc[t] # Idle /\ pc[t].call = "create_task" /\ pc'[t] = Idle =>
              IF op' = "failed"
              THEN /\ Ids(rows') \subseteq Ids(rows)
                   /\ Ids(rows') \cap {id \in Ids(rows) : Some(id) = pc[t].task.id} = {}
                   /\ TheTask'.id = None
              ELSE /\ TheTask'.id # None
                   /\ TheTask'.id[1] \in Ids(rows')
                   /\ Ids(rows') = Ids(pc[t].undo.rows) \cup {TheTask'.id[1]}
                   /\ TheTask'.id[1] \notin Ids(pc[t].undo.rows)]_vars

---------------------------------------------------------------------------
(* Properties of the order of the lists *)

\* no task of the list comes before one that was created later
NewestFirst(list) ==
    \A i, j \in DOMAIN list :
        i < j => ~DtLess(list[i].created_at[1], list[j].created_at[1])

\* C20: list_all(), list_pending() and search() return the tasks newest
\* first: no task precedes one whose created_at is later, in whatever order
\* the tasks were persisted.
ListsNewestFirst ==
    /\ NewestFirst(get_all_tasks(rows))
    /\ NewestFirst(get_pending_tasks(rows))
    /\ \A q \in OrderQueries : NewestFirst(search_tasks(rows, q))

\* the task persisted first is the newer of two, and all three lists hold
\* both tasks
NewestFirstWitness ==
    LET all == get_all_tasks(rows)
    IN /\ Len(all) = 2
       /\ all[1].id[1] < all[2].id[1]
       /\ DtLess(all[2].created_at[1], all[1].created_at[1])
       /\ get_pending_tasks(rows) = all
       /\ search_tasks(rows, <<ChA>>) = all

---------------------------------------------------------------------------
(* Properties of the constructor, the store's opening and get *)

\* C21: a task constructed from a description alone has created_at equal to
\* updated_at, no id, no completed_at, completed false, priority medium and
\* no tags.
ConstructedDefaults ==
    op = "Task" =>
        /\ TheTask.created_at # None
        /\ TheTask.id = None
        /\ TheTask.completed_at = None
        /\ ~TheTask.completed
        /\ TheTask.priority = "medium"
        /\ TheTask.tags = <<>>
        /\ TheTask.created_at = TheTask.updated_at

\* C22: opening a store on a file that holds tasks already leaves every
\* row as it was and does not reset the assignment of ids: the next id is
\* what it would have been.
OpenIdempotent ==
    [][op' = "Storage" =>
          /\ rows' = rows
          /\ NextRowid(rows', seq') = NextRowid(rows, seq)]_vars

\* the store was opened when it held a row and the row with the highest id
\* handed out had been deleted
OpenWitness ==
    /\ op = "Storage"
    /\ rows # {}
    /\ seq > MaxRowid(rows)

\* C23: get(id) returns the task of the row with that id when there is one,
\* and None when there is none; it leaves the store as it was.
GetFindsRow ==
    [][op' = "get_task" =>
          /\ rows' = rows
          /\ seq' = seq
          /\ IF \E r \in rows : r.id = arg'
             THEN LET r == CHOOSE q \in rows : q.id = arg'
                  IN /\ ret' # None
                     /\ ret'[1].id = Some(arg')
                     /\ [id |-> arg'] @@ _task_to_row(ret'[1]) = r
             ELSE ret' = None]_vars

\* get was asked for an id of a row that had been deleted while another
\* row is stored
GetMissingWitness ==
    /\ op = "get_task"
    /\ ret = None
    /\ arg \in Range(assigned)
    /\ rows # {}

\* C29: deletion is permanent: an id that was handed out and whose row is
\* gone stays without a row whatever the store does next, so get(id) keeps
\* returning None.
DeletionPermanent ==
    [][\A id \in Range(assigned) :
          get_task(rows, id) = None => get_task(rows', id) = None]_vars

\* update was called with a stale copy of a deleted task after another
\* task had been created
StaleUpdateWitness ==
    /\ op = "update_task"
    /\ task # None
    /\ TheTask.id # None
    /\ TheTask.id[1] \in Range(assigned)
    /\ TheTask.id[1] \notin Ids(rows)
    /\ \E r \in rows : r.id > TheTask.id[1]

---------------------------------------------------------------------------
(* Properties of the task's predicates and of its completion *)

\* C24: is_overdue holds exactly when the task has a due date, is not
\* completed and the due date is before now; so it is false for a completed
\* task, and false right after mark_completed() on an overdue task.
OverdueIff ==
    task # None =>
        /\ is_overdue(TheTask, now, tz) <=>
               /\ TheTask.due_date # None
               /\ ~TheTask.completed
               /\ DtLess(TheTask.due_date[1], LocalNow(now, tz))
        /\ (TheTask.completed => ~is_overdue(TheTask, now, tz))
        /\ (op = "mark_completed" => ~is_overdue(TheTask, now, tz))

\* mark_completed() was called on a task whose due date has passed
OverdueCompletedWitness ==
    /\ op = "mark_completed"
    /\ TheTask.due_date # None
    /\ DtLess(TheTask.due_date[1], LocalNow(now, tz))

\* the task has completed_at exactly when it is completed
StampedIffCompleted(t) == t.completed <=> t.completed_at # None

\* the row has completed_at exactly when it is completed
RowStampedIffCompleted(r) == (r.completed = 1) <=> (r.completed_at # None)

---------------------------------------------------------------------------
(* Properties of the commands *)

\* C25: `done` leads to an update only when the id is valid, the task exists
\* and is pending: for an invalid id, an id without a row or a task that is
\* completed already, the command changes no row and ends without a call of
\* update, so the row keeps its completed_at and updated_at.
DoneOnlyPending ==
    [][op' = "done" =>
          LET id == validate_task_id(arg')
              row == IF id = None THEN {}
                     ELSE {r \in rows : r.id = id[1]}
          IN /\ rows' = rows
             /\ (row = {} \/ (\E r \in row : r.completed = 1) =>
                    /\ pc' = pc
                    /\ ret' # "fetched")
             /\ \A p \in Threads :
                    pc'[p] # pc[p] =>
                        /\ pc'[p].task.id = id
                        /\ pc'[p].task.completed
                        /\ \E r \in row : r.completed = 0]_vars

\* `done` was called, the clock having moved on, for a task that was
\* completed already
DoneAgainWitness ==
    /\ op = "done"
    /\ ret = "already completed"
    /\ \E r \in rows : /\ r.completed = 1
                       /\ arg = <<Ch0 + r.id>>
                       /\ r.completed_at # Some(isoformat(LocalNow(now, tz)))

\* C26: `add` with a due-date text that cannot be parsed reports 'Invalid
\* due date' and adds no row; `edit` with such a text reports it and ends
\* without a call of update.
InvalidDueDateNoWrite ==
    [][/\ (op' = "add" /\ Given(arg'.due) /\ parse_date(arg'.due[1]) = None =>
              /\ ret' = "Invalid due date"
              /\ rows' = rows
              /\ seq' = seq)
       /\ (op' = "edit" /\ Given(arg'.due) /\ parse_date(arg'.due[1]) = None =>
              /\ ret' \in {"Invalid due date", "Invalid task ID", "not found"}
              /\ rows' = rows
              /\ pc' = pc)]_vars

\* `edit` of a stored task was given a new description and a due date that
\* cannot be parsed
InvalidDueDateWitness ==
    /\ op = "edit"
    /\ ret = "Invalid due date"
    /\ Given(arg.description)
    /\ \E r \in rows : arg.task_id = <<Ch0 + r.id>> /\ r.description = <<ChA>>

\* C28: under any interleaving of the commands a stored task that is
\* completed is never stored as not completed later.
StoredCompletionKept ==
    [][\A r \in rows, q \in rows' :
          q.id = r.id /\ r.completed = 1 => q.completed = 1]_vars


\* C30: the command `today` shows every pending task that the due-today
\* query returned in exactly one of the two tables, 'Overdue Tasks' or
\* 'Due Today', whatever the clock does between the queries and the filter.
TodayShowsEachOnce ==
    op = "today" =>
        \A t \in Range(ret.today_tasks) :
            (\E o \in Range(ret.overdue_table) : o.id = t.id)
                # (\E d \in Range(ret.due_today_table) : d.id = t.id)
====
